---- MODULE Spec2Model ----
(***************************************************************************)
(* A model of ringslice: a fixed-capacity ring of elements with one        *)
(* Writer and many Readers (Writer: src/buf_test.go lines 156-348,         *)
(* Reader: src/reader.go).                                                  *)
(*                                                                         *)
(* Elements are modelled by their rank in the stream: the k-th element     *)
(* ever passed to Write is the number k, and 0 is the zero value that      *)
(* make([]T, size) fills the storage with.                                 *)
(***************************************************************************)
EXTENDS Integers, Sequences, FiniteSets, TLC

\* ------------------------------------------------------------- bounds
Size == 3
MaxTotal == 6
MaxDest == 4
MaxClose == 2
PairTotal == 3
LiveTotal == 3
OverTotal == 7

Readers == {"r1", "r2"}
Closers == {"k1", "k2"}

VARIABLES
    data,       \* Writer.data: [0..Size-1 -> element]
    wPos,       \* Writer.wPos
    cycle,      \* Writer.cycle
    closed,     \* Writer.closed
    wg,         \* Writer.wg: the WaitGroup counter
    wmu,        \* Writer.mutex: the thread inside Lock() ("none": no writer)
    wpc,        \* the writing thread: "idle" | "pending" (inside mutex.Lock())
                \*   | "copy" (line 297 next) | "cursor" (line 307 next)
    wcall,      \* the Write in progress: len(values), and history: the lap
                \*   and cursor it found
    cpc,        \* each closing thread: "idle" | "pending" | "wgwait" | "returned"
    panicked,   \* a Write panicked (slice bounds out of range)
    rst,        \* each reader: where its thread stands
    kind,       \* the factory that is creating the reader
    rPos,       \* Reader.rPos
    rcycle,     \* Reader.cycle
    block,      \* Reader.block
    autoSkip,   \* Reader.autoSkip
    rclosed,    \* *Reader.closed
    rl,         \* read locks of Writer.mutex each reader holds
    call,       \* the Read in progress of each reader
    written,    \* history: number of elements passed to Write so far
    lastn,      \* history: length of the last Write performed
    expect,     \* history: the element each reader is due next (0: none,
                \*   its factory read a lap and a cursor that never went
                \*   together; -k: none, and k was the next element to be
                \*   written when BlockingCurrentReader was called, or
                \*   when Reader or BlockingReader returned).  While the
                \*   factory runs: the next element to be written
                \*   (BlockingCurrentReader) or the Writer's position
                \*   (Reader, BlockingReader) when it was called
    ret         \* history: the last call that returned

vars == <<data, wPos, cycle, closed, wg, wmu, wpc, wcall, cpc, panicked, rst, kind,
          rPos, rcycle, block, autoSkip, rclosed, rl, call, written, lastn,
          expect, ret>>


Min(a, b) == IF a < b THEN a ELSE b

Slots == 0..(Size - 1)

\* ------------------------------------------------------------- Writer

\* New: make([]T, size), wPos = 0, cycle = 0
New == [i \in Slots |-> 0]

\* The slice handed to Write: the next n elements of the stream.
Values(n) == [i \in 1..n |-> written + i]

\* Go's copy(d[at:], src): copies min(len(d) - at, len(src)) elements
Copy(d, at, src) ==
    [i \in Slots |-> IF i >= at /\ i - at < Len(src) THEN src[i - at + 1] ELSE d[i]]

\* Write, oversized case: the cursor and lap before the copy
OversizeCycle(cy, n) == IF n > Size THEN cy + (n \div Size) - 1 ELSE cy
OversizePos(wp, n) == IF n > Size THEN wp + (n % Size) ELSE wp
OversizeValues(values) ==
    IF Len(values) > Size
    THEN SubSeq(values, Len(values) - Size + 1, Len(values))
    ELSE values

\* The lap after the copy as ringslice v0.1.1 had it: no exact-fit case
WrapOnly(cy, len, remain) == IF len > remain THEN cy + 1 ELSE cy

\* Write, the lap after the copy: a wrap or an exact fit to the end
CycleAfterCopy(cy, len, remain) ==
    IF len > remain THEN cy + 1
    ELSE IF len = remain THEN cy + 1
    ELSE cy

\* copy(w.data[w.wPos:], values) and, past the end, copy(w.data, values[remain:])
Stored(d, wp, vals) ==
    LET remain == Size - wp
        d1 == Copy(d, wp, vals)
    IN  IF Len(vals) > remain THEN Copy(d1, 0, SubSeq(vals, remain + 1, Len(vals)))
        ELSE d1

\* w.wPos = (w.wPos + len(values)) % w.size
CursorAfter(wp, len) == (wp + len) % Size

\* TotalWritten
TotalWritten == cycle * Size + wPos

\* ------------------------------------------------------------- Reader

\* data[lo:hi]
Slice(lo, hi) == [i \in 1..(hi - lo) |-> data[lo + i - 1]]

\* The count of the second pass alone
SecondOnly(avail, nextN) == nextN

\* return int(avail) + nextN (reader.go:84)
Sum(avail, nextN) == avail + nextN

\* What one pass through the body of Read or ReadOne gives: it returns
\* ("ret") or, in Read, it calls Read again for the rest ("rec").
Leg(k, c, e, rc, rp, d, sk) ==
    [kind |-> k, cnt |-> c, err |-> e, rc |-> rc, rp |-> rp, data |-> d, skip |-> sk]

\* r.cycle < r.w.cycle-1 (reader.go:46, 127)
TooFar(rc) == rc < cycle - 1

\* A test that also refuses the reader that stands at the Writer's cursor
OverrunOrAt(rp) == wPos >= rp

\* r.w.wPos > r.rPos, one lap behind (reader.go:58, 139)
Overrun(rp) == wPos > rp

\* for r.cycle == r.w.cycle && r.rPos >= r.w.wPos (reader.go:37, 118)
NoData(r) == rcycle[r] = cycle /\ rPos[r] >= wPos

\* Read, lines 46-105, for a destination of length n
ReadLeg(rc, rp, as, n) ==
    IF TooFar(rc) /\ ~as THEN Leg("ret", 0, "Stale", rc, rp, <<>>, FALSE)
    ELSE
    LET far == TooFar(rc)
        rc1 == IF far THEN cycle - 1 ELSE rc
        rp1 == IF far THEN wPos ELSE rp
    IN  IF rc1 = cycle - 1
        THEN IF Overrun(rp1) /\ ~as
             THEN Leg("ret", 0, "Stale", rc1, rp1, <<>>, far)
             ELSE LET rp2 == IF Overrun(rp1) THEN wPos ELSE rp1
                      sk == far \/ Overrun(rp1)
                      avail == Size - rp2
                  IN  IF avail >= n
                      THEN IF rp2 + n >= Size
                           THEN Leg("ret", n, "nil", rc1 + 1, 0, Slice(rp2, rp2 + n), sk)
                           ELSE Leg("ret", n, "nil", rc1, rp2 + n, Slice(rp2, rp2 + n), sk)
                      ELSE Leg("rec", avail, "nil", rc1 + 1, 0, Slice(rp2, Size), sk)
        ELSE IF rc1 # cycle
        THEN Leg("ret", 0, "Future", rc1, rp1, <<>>, far)
        ELSE IF rp1 >= wPos
        THEN Leg("ret", 0, "EOF", rc1, rp1, <<>>, far)
        ELSE LET m == Min(n, wPos - rp1)
             IN  Leg("ret", m, "nil", rc1, rp1 + m, Slice(rp1, rp1 + m), far)

\* ReadOne, lines 127-178
ReadOneLeg(rc, rp, as) ==
    IF TooFar(rc) /\ ~as THEN Leg("ret", 0, "Stale", rc, rp, <<>>, FALSE)
    ELSE
    LET far == TooFar(rc)
        rc1 == IF far THEN cycle - 1 ELSE rc
        rp1 == IF far THEN wPos ELSE rp
    IN  IF rc1 = cycle - 1
        THEN IF Overrun(rp1) /\ ~as
             THEN Leg("ret", 0, "Stale", rc1, rp1, <<>>, far)
             ELSE LET rp2 == IF Overrun(rp1) THEN wPos ELSE rp1
                      sk == far \/ Overrun(rp1)
                      avail == Size - rp2
                  IN  IF avail >= 1
                      THEN IF rp2 + 1 >= Size
                           THEN Leg("ret", 1, "nil", rc1 + 1, 0, <<data[rp2]>>, sk)
                           ELSE Leg("ret", 1, "nil", rc1, rp2 + 1, <<data[rp2]>>, sk)
                      ELSE Leg("ret", 1, "nil", rc1 + 1, 1, <<data[0]>>, sk)
        ELSE IF rc1 # cycle
        THEN Leg("ret", 0, "Future", rc1, rp1, <<>>, far)
        ELSE IF rp1 >= wPos
        THEN Leg("ret", 0, "EOF", rc1, rp1, <<>>, far)
        ELSE Leg("ret", 1, "nil", rc1, rp1 + 1, <<data[rp1]>>, far)

\* ------------------------------------------------------------- state

NoCall == [reset |-> FALSE, n |-> 0, acc |-> <<>>, rc0 |-> 0, rp0 |-> 0,
           blk0 |-> FALSE, skip |-> FALSE]

NoWrite == [n |-> 0, cycle0 |-> 0, wPos0 |-> 0]

NoRet == [who |-> "none", op |-> "none", n |-> 0, cnt |-> 0, err |-> "nil",
          data |-> <<>>, rc0 |-> 0, rp0 |-> 0, rc1 |-> 0, rp1 |-> 0,
          as0 |-> FALSE, blk0 |-> FALSE, skip |-> FALSE, wc0 |-> 0, wp0 |-> 0,
          cl0 |-> FALSE, wr0 |-> 0, exp0 |-> 0, lastn0 |-> 0,
          first |-> FALSE, live |-> {}]

\* A field that all the readers would share
Shared(f, r, v) == [q \in DOMAIN f |-> v]

\* A field of one Reader struct (reader.go:9-16): private to that reader.
Own(f, r, v) == [f EXCEPT ![r] = v]

\* The readers a factory has returned
Created == {r \in Readers : rst[r] \notin {"none", "checked"}}

\* The readers on which Close has not been called
Live == {r \in Created : rclosed[r] = 0}

Init ==
    /\ data = New
    /\ wPos = 0
    /\ cycle = 0
    /\ closed = FALSE
    /\ wg = 0
    /\ wmu = "none"
    /\ wpc = "idle"
    /\ wcall = NoWrite
    /\ cpc = [k \in Closers |-> "idle"]
    /\ panicked = FALSE
    /\ rst = [r \in Readers |-> "none"]
    /\ kind = [r \in Readers |-> "Reader"]
    /\ rPos = [r \in Readers |-> 0]
    /\ rcycle = [r \in Readers |-> 0]
    /\ block = [r \in Readers |-> FALSE]
    /\ autoSkip = [r \in Readers |-> FALSE]
    /\ rclosed = [r \in Readers |-> 0]
    /\ rl = [r \in Readers |-> 0]
    /\ call = [r \in Readers |-> NoCall]
    /\ written = 0
    /\ lastn = 0
    /\ expect = [r \in Readers |-> 0]
    /\ ret = NoRet

\* ------------------------------------------------------------- sync

\* mutex.Lock() is granted once no reader holds the mutex
NoReadLock == \A r \in Readers : rl[r] = 0

\* mutex.RLock() waits while a writer is inside Lock() or holds the mutex
WriterAhead == wmu # "none"

\* cond.Broadcast(): every reader parked in cond.Wait() is woken and goes
\* on to take the read lock again
Broadcast(s) == [r \in Readers |-> IF s[r] = "wait" THEN "woken" ELSE s[r]]

\* mutex.Unlock(): the readers waiting in RLock() are let in
Unlock(s) == [r \in Readers |-> IF s[r] = "blocked" THEN "granted" ELSE s[r]]
UnlockCount(s) == [r \in Readers |-> IF s[r] = "blocked" THEN rl[r] + 1 ELSE rl[r]]

\* A wait that never waits
NoWait == TRUE

\* wg.Wait() returns once the counter is zero
WaitGroupDone == wg = 0

\* A Close that always calls wg.Done()
EveryClose(c) == wg - 1

\* Reader.Close: atomic.AddUint64(r.closed, 1) gave c; wg.Done() only if
\* it is 1 (reader.go:187-191)
Done(c) == IF c # 1 THEN wg ELSE wg - 1

\* ------------------------------------------------------------- Writer actions

\* Write: w.mutex.Lock() is entered
WriteLock ==
    /\ ~panicked
    /\ wpc = "idle"
    /\ wmu = "none"
    /\ wmu' = "w"
    /\ wpc' = "pending"
    /\ ret' = NoRet
    /\ UNCHANGED <<data, wPos, cycle, closed, wg, wcall, cpc, panicked, rst, kind,
                   rPos, rcycle, block, autoSkip, rclosed, rl, call, written,
                   lastn, expect>>

\* history: Write returned; wc0, wp0 are the lap and cursor it found and
\* rc1, rp1 those it left
WriteRet(n, e, c, cy, wp) ==
    [NoRet EXCEPT !.who = "w", !.op = "Write", !.n = n,
                  !.cnt = IF e = "nil" THEN n ELSE 0, !.err = e,
                  !.wc0 = c.cycle0, !.wp0 = c.wPos0, !.rc1 = cy, !.rp1 = wp,
                  !.cl0 = closed, !.wr0 = written, !.lastn0 = lastn]

\* Write, lines 297-303, for the call c: the copy and the lap.
\* w.data[w.wPos:] panics when wPos > len(data) and the deferred Unlock
\* runs; the fields assigned before it stay.
WriteCopyStep(c) ==
    LET vals == OversizeValues(Values(c.n))
    IN  IF wPos > Size
        THEN /\ panicked' = TRUE
             /\ wpc' = "idle"
             /\ wmu' = "none"
             /\ wcall' = NoWrite
             /\ rst' = Unlock(rst)
             /\ rl' = UnlockCount(rst)
             /\ UNCHANGED <<data, cycle>>
        ELSE /\ data' = Stored(data, wPos, vals)
             /\ cycle' = CycleAfterCopy(cycle, Len(vals), Size - wPos)
             /\ wpc' = "cursor"
             /\ wcall' = c
             /\ UNCHANGED <<panicked, wmu, rst, rl>>

\* Write: the lock is held; the closed check, then either the oversized
\* case (lines 287-294) or, for values that fit, the copy (lines 297-303)
WriteBody(cap) ==
    /\ ~panicked
    /\ wpc = "pending"
    /\ NoReadLock
    /\ \E n \in 0..(cap - written) :
         LET c == [n |-> n, cycle0 |-> cycle, wPos0 |-> wPos]
         IN  IF closed
             THEN /\ wpc' = "idle"
                  /\ wmu' = "none"
                  /\ rst' = Unlock(rst)
                  /\ rl' = UnlockCount(rst)
                  /\ ret' = WriteRet(n, "Closed", c, cycle, wPos)
                  /\ UNCHANGED <<data, wPos, cycle, wcall, panicked>>
             ELSE IF n > Size
             THEN /\ cycle' = OversizeCycle(cycle, n)
                  /\ wPos' = OversizePos(wPos, n)
                  /\ wpc' = "copy"
                  /\ wcall' = c
                  /\ ret' = NoRet
                  /\ UNCHANGED <<data, wmu, rst, rl, panicked>>
             ELSE /\ WriteCopyStep(c)
                  /\ ret' = NoRet
                  /\ UNCHANGED wPos
    /\ UNCHANGED <<closed, wg, cpc, kind, rPos, rcycle, block, autoSkip, rclosed,
                   call, written, lastn, expect>>

\* Write, oversized: the copy and the lap (lines 297-303)
WriteCopy ==
    /\ ~panicked
    /\ wpc = "copy"
    /\ WriteCopyStep(wcall)
    /\ ret' = NoRet
    /\ UNCHANGED <<wPos, closed, wg, cpc, kind, rPos, rcycle, block, autoSkip,
                   rclosed, call, written, lastn, expect>>

\* Write, lines 307-311: the cursor, cond.Broadcast(), the return and the
\* deferred Unlock
WriteCursor ==
    /\ ~panicked
    /\ wpc = "cursor"
    /\ wPos' = CursorAfter(wPos, Min(wcall.n, Size))
    /\ wpc' = "idle"
    /\ wmu' = "none"
    /\ wcall' = NoWrite
    /\ written' = written + wcall.n
    /\ lastn' = wcall.n
    /\ rst' = Unlock(Broadcast(rst))
    /\ rl' = UnlockCount(rst)
    /\ ret' = WriteRet(wcall.n, "nil", wcall, cycle, wPos')
    /\ UNCHANGED <<data, cycle, closed, wg, cpc, panicked, kind, rPos, rcycle,
                   block, autoSkip, rclosed, call, expect>>

\* Writer.Close: w.mutex.Lock() is entered
CloseLock(k) ==
    /\ ~panicked
    /\ cpc[k] \in {"idle", "returned"}
    /\ wmu = "none"
    /\ wmu' = k
    /\ cpc' = [cpc EXCEPT ![k] = "pending"]
    /\ ret' = NoRet
    /\ UNCHANGED <<data, wPos, cycle, closed, wg, wpc, wcall, panicked, rst, kind, rPos,
                   rcycle, block, autoSkip, rclosed, rl, call, written, lastn,
                   expect>>

CloseRet(k, isFirst) ==
    [NoRet EXCEPT !.who = k, !.op = "Close", !.first = isFirst, !.live = Live,
                  !.cl0 = TRUE]

\* Writer.Close under the lock: a repeated call returns, the first one sets
\* closed, wakes the readers, unlocks and goes on to wg.Wait()
CloseBody(k) ==
    /\ ~panicked
    /\ cpc[k] = "pending"
    /\ NoReadLock
    /\ wmu' = "none"
    /\ rl' = UnlockCount(rst)
    /\ IF closed
       THEN /\ cpc' = [cpc EXCEPT ![k] = "returned"]
            /\ rst' = Unlock(rst)
            /\ ret' = CloseRet(k, FALSE)
            /\ UNCHANGED closed
       ELSE /\ cpc' = [cpc EXCEPT ![k] = "wgwait"]
            /\ closed' = TRUE
            /\ rst' = Unlock(Broadcast(rst))
            /\ ret' = NoRet
    /\ UNCHANGED <<data, wPos, cycle, wg, wpc, wcall, panicked, kind, rPos, rcycle, block,
                   autoSkip, rclosed, call, written, lastn, expect>>

\* Writer.Close: w.wg.Wait() returns
CloseWait(k) ==
    /\ ~panicked
    /\ cpc[k] = "wgwait"
    /\ WaitGroupDone
    /\ cpc' = [cpc EXCEPT ![k] = "returned"]
    /\ ret' = CloseRet(k, TRUE)
    /\ UNCHANGED <<data, wPos, cycle, closed, wg, wmu, wpc, wcall, panicked, rst, kind,
                   rPos, rcycle, block, autoSkip, rclosed, rl, call, written,
                   lastn, expect>>

\* ------------------------------------------------------------- factories

\* history: a Write is between its first store and its return
Writing == wpc \in {"copy", "cursor"}

\* history: the lap and cursor of the Writer, those it had when the Write
\* in progress began
Edge == IF Writing THEN <<wcall.cycle0, wcall.wPos0>> ELSE <<cycle, wPos>>

\* The factories take no lock, so a Write may run between their reads of
\* the Writer's fields, and they may read between two of its stores.
\* Reader, BlockingReader, BlockingCurrentReader: if w.closed { return nil }
\* and cycle := w.cycle; the local variable is kept in the struct to be.
Factory(r, k) ==
    /\ ~panicked
    /\ rst[r] = "none"
    /\ ~closed
    /\ rst' = [rst EXCEPT ![r] = "checked"]
    /\ kind' = [kind EXCEPT ![r] = k]
    /\ rcycle' = [rcycle EXCEPT ![r] = cycle]
    /\ expect' = [expect EXCEPT ![r] =
                     IF k = "BlockingCurrentReader" THEN written + 1
                     ELSE Edge[1] * Size + Edge[2]]
    /\ ret' = NoRet
    /\ UNCHANGED <<data, wPos, cycle, closed, wg, wmu, wpc, wcall, cpc, panicked,
                   rPos, block, autoSkip, rclosed, rl, call, written, lastn>>

NewReader(r) == Factory(r, "Reader")
NewBlockingReader(r) == Factory(r, "BlockingReader")
NewBlockingCurrentReader(r) == Factory(r, "BlockingCurrentReader")

\* the "rewind" of Reader and BlockingReader, c and pos the values read
RewindCycle(c) == IF c > 0 THEN c - 1 ELSE c
RewindPos(c, pos) == IF c > 0 THEN pos ELSE 0
Rewind(e) == <<RewindCycle(e[1]), RewindPos(e[1], e[2])>>

\* history: the elements are numbered as the Writer's positions are, but
\* for the laps a Write failed to count; Drift is that difference
Drift ==
    IF wpc \in {"copy", "cursor"}
    THEN written - (wcall.cycle0 * Size + wcall.wPos0)
    ELSE written - TotalWritten

\* history: the element that is, or will be, at cursor p of lap c
Index(c, p) == c * Size + p + 1 + Drift

\* history: lap c and the cursor read now are a position the Writer has
\* been at (no Write ran between the two reads, none has stored a part)
Seen(c) ==
    IF wpc \in {"copy", "cursor"}
    THEN c = wcall.cycle0 /\ wPos = wcall.wPos0
    ELSE c = cycle

\* history: the oldest element the storage still holds
Oldest == IF written > Size THEN written - Size + 1 ELSE 1

\* history: the lap and cursor the Writer had when the factory of reader
\* r was called
Called(r) == <<expect[r] \div Size, expect[r] % Size>>

\* history: what a reader is due, made from lap c and the cursor read now.
\* One made while a Write is going on, or at the place the rewind gives
\* for the Writer's position when the factory was called, is due nothing.
Born(r, c, pos) ==
    IF Seen(rcycle[r]) THEN Index(c, pos)
    ELSE IF kind[r] = "BlockingCurrentReader" THEN 0 - expect[r]
    ELSE IF Writing \/ <<c, pos>> = Rewind(Called(r)) THEN 0
    ELSE 0 - (written + 1)

\* the rest of a factory: pos := w.wPos, the rewind, w.wg.Add(1), the Reader
Create(r) ==
    /\ ~panicked
    /\ rst[r] = "checked"
    /\ LET c == IF kind[r] = "BlockingCurrentReader" THEN rcycle[r]
                ELSE RewindCycle(rcycle[r])
           pos == IF kind[r] = "BlockingCurrentReader" THEN wPos
                  ELSE RewindPos(rcycle[r], wPos)
       IN  /\ rcycle' = Own(rcycle, r, c)
           /\ rPos' = Own(rPos, r, pos)
           /\ expect' = [expect EXCEPT ![r] = Born(r, c, pos)]
           /\ ret' = [NoRet EXCEPT !.who = r, !.op = kind[r], !.rc1 = c, !.rp1 = pos,
                                   !.rc0 = Called(r)[1], !.rp0 = Called(r)[2],
                                   !.wc0 = cycle, !.wp0 = wPos, !.wr0 = written]
    /\ rst' = [rst EXCEPT ![r] = "idle"]
    /\ wg' = wg + 1
    /\ block' = [block EXCEPT ![r] = kind[r] # "Reader"]
    /\ UNCHANGED <<data, wPos, cycle, closed, wmu, wpc, wcall, cpc, panicked, kind,
                   autoSkip, rclosed, rl, call, written, lastn>>

\* ------------------------------------------------------------- Reader actions

\* history: the element a reader is due after a call that returned d; a
\* reader that was due none is due one again once autoSkip has moved it
Due(r, d, skipped) ==
    IF expect[r] <= 0 /\ ~skipped THEN expect[r]
    ELSE IF d # <<>> THEN d[Len(d)] + 1
    ELSE IF skipped THEN Oldest
    ELSE expect[r]

\* A Read or ReadOne returns (the deferred RUnlocks run): c is the call as
\* it stood when its first pass began, leg the pass that returns.
Finish(r, op, c, leg, blk) ==
    /\ rst' = [rst EXCEPT ![r] = "idle"]
    /\ rl' = [rl EXCEPT ![r] = 0]
    /\ rPos' = Own(rPos, r, leg.rp)
    /\ rcycle' = Own(rcycle, r, leg.rc)
    /\ block' = [block EXCEPT ![r] = blk]
    /\ call' = [call EXCEPT ![r] = NoCall]
    /\ expect' = [expect EXCEPT ![r] = Due(r, c.acc \o leg.data, c.skip \/ leg.skip)]
    /\ ret' = [NoRet EXCEPT !.who = r, !.op = op, !.n = c.n,
                            !.cnt = Sum(Len(c.acc), leg.cnt), !.err = leg.err,
                            !.data = c.acc \o leg.data,
                            !.rc0 = c.rc0, !.rp0 = c.rp0,
                            !.rc1 = leg.rc, !.rp1 = leg.rp,
                            !.as0 = autoSkip[r], !.blk0 = c.blk0,
                            !.skip = c.skip \/ leg.skip,
                            !.wc0 = cycle, !.wp0 = wPos, !.cl0 = closed,
                            !.wr0 = written, !.exp0 = expect[r], !.lastn0 = lastn]

\* The call of reader r, of destination length n, as its first pass begins
Begin(r, n) ==
    [NoCall EXCEPT !.n = n, !.rc0 = rcycle[r], !.rp0 = rPos[r], !.blk0 = block[r]]

\* The body of Read/ReadOne from the blocking loop on, the read lock held
Body(r, op, n) ==
    IF block[r] /\ NoData(r) /\ ~closed
    THEN \* r.w.cond.Wait(): parked, the read lock released
         /\ rst' = [rst EXCEPT ![r] = "wait"]
         /\ rl' = [rl EXCEPT ![r] = 0]
         /\ call' = [call EXCEPT ![r] = NoCall]
         /\ ret' = NoRet
         /\ UNCHANGED <<rPos, rcycle, block, expect>>
    ELSE LET blk == IF block[r] /\ NoData(r) THEN FALSE ELSE block[r]
             leg == IF op = "Read"
                    THEN ReadLeg(rcycle[r], rPos[r], autoSkip[r], n)
                    ELSE ReadOneLeg(rcycle[r], rPos[r], autoSkip[r])
         IN  IF leg.kind = "rec"
             THEN \* the tail is copied; r.Read(p[avail:]) is about to be called
                  /\ rst' = [rst EXCEPT ![r] = "rec"]
                  /\ rl' = [rl EXCEPT ![r] = 1]
                  /\ rPos' = Own(rPos, r, leg.rp)
                  /\ rcycle' = Own(rcycle, r, leg.rc)
                  /\ block' = [block EXCEPT ![r] = blk]
                  /\ call' = [call EXCEPT ![r] =
                                 [Begin(r, n) EXCEPT !.acc = leg.data, !.skip = leg.skip]]
                  /\ ret' = NoRet
                  /\ UNCHANGED <<expect>>
             ELSE Finish(r, op, Begin(r, n), leg, blk)

\* The closed check and RLock of Read/ReadOne, then the body if the lock is free
Start(r, op, n) ==
    /\ ~panicked
    /\ rst[r] = "idle"
    /\ IF rclosed[r] > 0
       THEN /\ ret' = [NoRet EXCEPT !.who = r, !.op = op, !.err = "Closed",
                              !.rc0 = rcycle[r], !.rp0 = rPos[r],
                              !.rc1 = rcycle[r], !.rp1 = rPos[r],
                              !.as0 = autoSkip[r], !.blk0 = block[r],
                              !.wc0 = cycle, !.wp0 = wPos, !.cl0 = closed,
                              !.wr0 = written, !.exp0 = expect[r], !.lastn0 = lastn]
            /\ UNCHANGED <<rst, rl, rPos, rcycle, block, call, expect>>
       ELSE IF WriterAhead
       THEN /\ rst' = [rst EXCEPT ![r] = "blocked"]
            /\ ret' = NoRet
            /\ UNCHANGED <<rl, rPos, rcycle, block, call, expect>>
       ELSE Body(r, op, n)
    /\ UNCHANGED <<data, wPos, cycle, closed, wg, wmu, wpc, wcall, cpc, panicked, kind,
                   autoSkip, rclosed, written, lastn>>

Read(r) == \E n \in 0..MaxDest : Start(r, "Read", n)

ReadOne(r) == Start(r, "ReadOne", 1)

\* Reset under the read lock
DoReset(r) ==
    /\ rst' = [rst EXCEPT ![r] = "idle"]
    /\ rl' = [rl EXCEPT ![r] = 0]
    /\ rcycle' = Own(rcycle, r, cycle)
    /\ rPos' = Own(rPos, r, wPos)
    /\ call' = [call EXCEPT ![r] = NoCall]
    /\ expect' = [expect EXCEPT ![r] = Index(cycle, wPos)]
    /\ ret' = [NoRet EXCEPT !.who = r, !.op = "Reset", !.rc1 = cycle, !.rp1 = wPos,
                            !.wc0 = cycle, !.wp0 = wPos, !.wr0 = written]
    /\ UNCHANGED <<block>>

Reset(r) ==
    /\ ~panicked
    /\ rst[r] = "idle"
    /\ IF WriterAhead
       THEN /\ rst' = [rst EXCEPT ![r] = "blocked"]
            /\ call' = [call EXCEPT ![r] = [NoCall EXCEPT !.reset = TRUE]]
            /\ ret' = NoRet
            /\ UNCHANGED <<rl, rPos, rcycle, block, expect>>
       ELSE DoReset(r)
    /\ UNCHANGED <<data, wPos, cycle, closed, wg, wmu, wpc, wcall, cpc, panicked, kind,
                   autoSkip, rclosed, written, lastn>>

\* A reader let in by Unlock goes on: Reset, or the body of Read/ReadOne
\* (whose destination is drawn here, where it is first used)
Granted(r) ==
    /\ ~panicked
    /\ rst[r] = "granted"
    /\ IF call[r].reset
       THEN DoReset(r)
       ELSE \/ \E n \in 0..MaxDest : Body(r, "Read", n)
            \/ Body(r, "ReadOne", 1)
    /\ UNCHANGED <<data, wPos, cycle, closed, wg, wmu, wpc, wcall, cpc, panicked, kind,
                   autoSkip, rclosed, written, lastn>>

\* A reader woken from cond.Wait() takes the read lock again (c.L.Lock())
\* and evaluates the blocking loop's condition
Woken(r) ==
    /\ ~panicked
    /\ rst[r] = "woken"
    /\ IF WriterAhead
       THEN /\ rst' = [rst EXCEPT ![r] = "blocked"]
            /\ ret' = NoRet
            /\ UNCHANGED <<rl, rPos, rcycle, block, call, expect>>
       ELSE \/ \E n \in 0..MaxDest : Body(r, "Read", n)
            \/ Body(r, "ReadOne", 1)
    /\ UNCHANGED <<data, wPos, cycle, closed, wg, wmu, wpc, wcall, cpc, panicked, kind,
                   autoSkip, rclosed, written, lastn>>

\* The recursive r.Read(p[avail:]) of line 82: its closed check, its RLock
\* (the first read lock still held), its blocking loop and its body
Recurse(r) ==
    /\ ~panicked
    /\ rst[r] = "rec"
    /\ LET c == call[r]
       IN  IF rclosed[r] > 0
           THEN Finish(r, "Read", c,
                       Leg("ret", 0, "Closed", rcycle[r], rPos[r], <<>>, FALSE), block[r])
           ELSE IF WriterAhead
           THEN /\ rst' = [rst EXCEPT ![r] = "blocked2"]
                /\ ret' = NoRet
                /\ UNCHANGED <<rl, rPos, rcycle, block, call, expect>>
           ELSE IF block[r] /\ NoData(r) /\ ~closed
           THEN /\ rst' = [rst EXCEPT ![r] = "wait2"]
                /\ ret' = NoRet
                /\ UNCHANGED <<rl, rPos, rcycle, block, call, expect>>
           ELSE LET blk == IF block[r] /\ NoData(r) THEN FALSE ELSE block[r]
                    leg == ReadLeg(rcycle[r], rPos[r], autoSkip[r], c.n - Len(c.acc))
                IN  IF leg.kind = "rec"
                    THEN /\ rl' = [rl EXCEPT ![r] = rl[r] + 1]
                         /\ rPos' = Own(rPos, r, leg.rp)
                         /\ rcycle' = Own(rcycle, r, leg.rc)
                         /\ block' = [block EXCEPT ![r] = blk]
                         /\ call' = [call EXCEPT ![r] =
                                        [c EXCEPT !.acc = c.acc \o leg.data,
                                                  !.skip = c.skip \/ leg.skip]]
                         /\ ret' = NoRet
                         /\ UNCHANGED <<rst, expect>>
                    ELSE Finish(r, "Read", c, leg, blk)
    /\ UNCHANGED <<data, wPos, cycle, closed, wg, wmu, wpc, wcall, cpc, panicked, kind,
                   autoSkip, rclosed, written, lastn>>

\* Reader.Close: atomic.AddUint64(r.closed, 1), and wg.Done() the first time
ReaderClose(r) ==
    /\ ~panicked
    /\ r \in Created
    /\ rclosed[r] < MaxClose
    /\ rclosed' = [rclosed EXCEPT ![r] = rclosed[r] + 1]
    /\ wg' = Done(rclosed[r] + 1)
    /\ ret' = NoRet
    /\ UNCHANGED <<data, wPos, cycle, closed, wmu, wpc, wcall, cpc, panicked, rst, kind,
                   rPos, rcycle, block, autoSkip, rl, call, written, lastn,
                   expect>>

SetAutoSkip(r, enabled) ==
    /\ ~panicked
    /\ rst[r] = "idle"
    /\ autoSkip' = [autoSkip EXCEPT ![r] = enabled]
    /\ ret' = NoRet
    /\ UNCHANGED <<data, wPos, cycle, closed, wg, wmu, wpc, wcall, cpc, panicked, rst,
                   kind, rPos, rcycle, block, rclosed, rl, call, written, lastn,
                   expect>>

\* ------------------------------------------------------------- specifications

\* One reader, the writing thread and one closing thread, every length of
\* Write up to MaxTotal elements in all.
Next ==
    \/ WriteLock
    \/ WriteBody(MaxTotal)
    \/ WriteCopy
    \/ WriteCursor
    \/ CloseLock("k1")
    \/ CloseBody("k1")
    \/ CloseWait("k1")
    \/ NewReader("r1")
    \/ NewBlockingReader("r1")
    \/ NewBlockingCurrentReader("r1")
    \/ Create("r1")
    \/ Read("r1")
    \/ ReadOne("r1")
    \/ Reset("r1")
    \/ Granted("r1")
    \/ Woken("r1")
    \/ Recurse("r1")
    \/ ReaderClose("r1")
    \/ \E b \in BOOLEAN : SetAutoSkip("r1", b)

Spec == Init /\ [][Next]_vars

\* Two readers at once: "r1", created by BlockingReader(), on which every
\* method is called, and "r2", created by Reader(), which only calls Read;
\* no one closes the Writer; PairTotal elements in all.
PairNext ==
    \/ WriteLock
    \/ WriteBody(PairTotal)
    \/ WriteCursor
    \/ NewBlockingReader("r1")
    \/ NewReader("r2")
    \/ \E r \in Readers : Create(r)
    \/ \E r \in Readers : Read(r)
    \/ ReadOne("r1")
    \/ Reset("r1")
    \/ \E r \in Readers : Granted(r)
    \/ Woken("r1")
    \/ \E r \in Readers : Recurse(r)
    \/ ReaderClose("r1")
    \/ \E b \in BOOLEAN : SetAutoSkip("r1", b)

PairSpec == Init /\ [][PairNext]_vars

\* The shutdown handshake: two readers and two closing threads, nothing
\* written.
ShutNext ==
    \/ \E k \in Closers : CloseLock(k)
    \/ \E k \in Closers : CloseBody(k)
    \/ \E k \in Closers : CloseWait(k)
    \/ \E r \in Readers : NewReader(r)
    \/ \E r \in Readers : NewBlockingReader(r)
    \/ \E r \in Readers : NewBlockingCurrentReader(r)
    \/ \E r \in Readers : Create(r)
    \/ \E r \in Readers : Read(r)
    \/ \E r \in Readers : Granted(r)
    \/ \E r \in Readers : Woken(r)
    \/ \E r \in Readers : ReaderClose(r)

ShutSpec == Init /\ [][ShutNext]_vars

\* Progress: one blocking reader, the writing thread and one closing
\* thread, LiveTotal elements in all.  A thread that can go on does go on:
\* a Lock() or RLock() that can be granted is granted, a woken reader runs,
\* wg.Wait() returns once the counter is zero.  The calls themselves are
\* the caller's choice and are under no such condition.
LiveNext ==
    \/ WriteLock
    \/ WriteBody(LiveTotal)
    \/ WriteCursor
    \/ CloseLock("k1")
    \/ CloseBody("k1")
    \/ CloseWait("k1")
    \/ NewBlockingReader("r1")
    \/ Create("r1")
    \/ Read("r1")
    \/ ReadOne("r1")
    \/ Granted("r1")
    \/ Woken("r1")
    \/ Recurse("r1")
    \/ ReaderClose("r1")

LiveSpec ==
    /\ Init
    /\ [][LiveNext]_vars
    /\ WF_vars(WriteBody(LiveTotal))
    /\ WF_vars(WriteCursor)
    /\ WF_vars(CloseBody("k1"))
    /\ WF_vars(CloseWait("k1"))
    /\ WF_vars(Create("r1"))
    /\ WF_vars(Granted("r1"))
    /\ WF_vars(Woken("r1"))
    /\ WF_vars(Recurse("r1"))

\* The writing thread alone, every length of Write up to OverTotal elements
\* in all: long enough for a Write longer than the storage to start from
\* every cursor.
OverNext ==
    \/ WriteLock
    \/ WriteBody(OverTotal)
    \/ WriteCopy
    \/ WriteCursor

OverSpec == Init /\ [][OverNext]_vars

\* ------------------------------------------------------------- properties

\* the c elements written one after the other from element a on
Run(a, c) == [i \in 1..c |-> a + i - 1]

\* A Read or a ReadOne has just returned on a reader that was not closed
ReadReturned == ret.op \in {"Read", "ReadOne"} /\ ret.err # "Closed"

\* ... and that reader was due an element of the stream
DueReturned == ReadReturned /\ ret.exp0 > 0

\* the elements the reader had not consumed when the call began
Backlog == ret.wr0 - ret.exp0 + 1

\* C1: with autoSkip disabled, what a reader's calls return is, call after
\* call, the stream from the element it was due on, nothing skipped,
\* repeated or replaced; and once an element it is due has been overwritten
\* its call fails with ErrStaleReader and returns nothing.
C1_Original ==
    (DueReturned /\ ~ret.as0) =>
        /\ ret.data = Run(ret.exp0, ret.cnt)
        /\ Backlog > Size => (ret.err = "Stale" /\ ret.cnt = 0)

\* C2: the first call after a Write longer than the capacity, on a reader
\* that existed before that Write and has autoSkip disabled, fails with
\* ErrStaleReader.
C2_Original ==
    (DueReturned /\ ~ret.as0 /\ ret.lastn0 > Size /\ Backlog >= ret.lastn0)
        => ret.err = "Stale"

\* C3: a reader more than one lap behind gets ErrStaleReader, nothing read
\* and its position kept, when autoSkip is disabled; with autoSkip it is
\* moved to (lap - 1, writeCursor) and reads on from the oldest element the
\* storage holds, without error.
C3_Original ==
    (ReadReturned /\ ret.rc0 < ret.wc0 - 1) =>
        IF ~ret.as0
        THEN ret.err = "Stale" /\ ret.cnt = 0 /\ ret.rc1 = ret.rc0 /\ ret.rp1 = ret.rp0
        ELSE /\ ret.err = "nil"
             /\ ret.data = Run(ret.wr0 - Size + 1, ret.cnt)
             /\ ret.n > 0 => ret.cnt > 0
             /\ ret.rc1 * Size + ret.rp1 = (ret.wc0 - 1) * Size + ret.wp0 + ret.cnt

\* C4: a Write of 1..capacity elements that ends exactly at the end of the
\* storage adds one to the lap and leaves the cursor at 0, and a reader that
\* was caught up before it gets its elements on the next Read, without
\* error.
C4_Original ==
    /\ (ret.op = "Write" /\ ret.err = "nil" /\ ret.n >= 1 /\ ret.n <= Size
            /\ ret.wp0 + ret.n = Size)
        => (ret.rc1 = ret.wc0 + 1 /\ ret.rp1 = 0)
    /\ (DueReturned /\ ret.op = "Read" /\ ret.lastn0 >= 1 /\ ret.lastn0 <= Size
            /\ ret.wp0 = 0 /\ Backlog = ret.lastn0)
        => /\ ret.err = "nil"
           /\ ret.cnt = Min(ret.n, ret.lastn0)
           /\ ret.data = Run(ret.exp0, ret.cnt)

\* C5: writer past a wrap (writeCursor > 0), reader one lap behind and not
\* overrun, destination longer than the tail: one Read returns the tail and
\* then the wrapped head, in the order written, min(len, tail + head)
\* elements, without error, and leaves the reader in the writer's lap.
C5_WrapRead ==
    (ReadReturned /\ ret.op = "Read" /\ ret.wp0 > 0 /\ ret.rc0 = ret.wc0 - 1
        /\ ret.rp0 >= ret.wp0 /\ ret.n > Size - ret.rp0)
    => /\ ret.err = "nil"
       /\ ret.cnt = Min(ret.n, (Size - ret.rp0) + ret.wp0)
       /\ ret.data = Run(ret.wr0 - ((Size - ret.rp0) + ret.wp0) + 1, ret.cnt)
       /\ ret.rc1 = ret.wc0

C5_Witness ==
    /\ ReadReturned /\ ret.op = "Read" /\ ret.wp0 > 0 /\ ret.rc0 = ret.wc0 - 1
    /\ ret.rp0 >= ret.wp0 /\ ret.n > Size - ret.rp0
    /\ ret.cnt = (Size - ret.rp0) + ret.wp0
    /\ ret.lastn0 <= Size

\* C6: when the elements written since the reader's position are no more
\* than the capacity, its Read returns them in the order written:
\* min(len, their number) elements, starting with the first of them, and
\* never ErrStaleReader.
C6_ReadBack ==
    (DueReturned /\ ret.op = "Read" /\ Backlog >= 1 /\ Backlog <= Size)
    => /\ ret.cnt = Min(ret.n, Backlog)
       /\ ret.data = Run(ret.exp0, ret.cnt)
       /\ ret.err \in {"nil", "EOF"}

C6_Witness ==
    /\ DueReturned /\ ret.op = "Read" /\ Backlog = Size /\ ret.cnt = Size
    /\ ret.lastn0 < Size /\ ret.lastn0 > 0

\* C7: when a Write returns without error TotalWritten() is the number of
\* elements the Writes were given so far, and the lap is not less than it was.
C7_Original ==
    (ret.op = "Write" /\ ret.err = "nil") =>
        /\ TotalWritten = written
        /\ ret.rc1 >= ret.wc0

\* C8 as stated: no Writer.Close call, first or repeated, returns while a
\* reader is left on which Close has not been called.
C8_Original == ret.op = "Close" => ret.live = {}

\* C8 as amended: the Writer.Close call that closes the Writer does not
\* return while a reader is left on which Close has not been called.
C8_FirstClose == (ret.op = "Close" /\ ret.first) => ret.live = {}

C8_Witness ==
    /\ ret.op = "Close" /\ ret.first
    /\ Created = Readers
    /\ \E r \in Readers : rst[r] = "idle" /\ block[r]

\* C9: a blocking reader parked inside Read or ReadOne when Writer.Close
\* is called is released and its call returns io.EOF; and the Writer.Close
\* that waits for the readers returns once none is left.
Parked(r) == rst[r] \in {"wait", "wait2"}

C9_Original ==
    /\ \A r \in Readers :
          (Parked(r) /\ cpc["k1"] = "pending")
              ~> (ret.who = r /\ ret.op \in {"Read", "ReadOne"} /\ ret.err = "EOF")
    /\ (cpc["k1"] = "wgwait" /\ wg = 0 /\ Created = {r \in Readers : rst[r] # "none"})
              ~> (cpc["k1"] = "returned")

\* C10: what one reader does (Read, ReadOne, Reset, SetAutoSkip, Close)
\* leaves the cursor, lap, block and autoSkip of every other reader, and
\* the Writer's storage, cursor and lap, as they were.
ReaderStep(r) ==
    \/ Read(r) \/ ReadOne(r) \/ Reset(r) \/ Granted(r) \/ Woken(r) \/ Recurse(r)
    \/ ReaderClose(r) \/ \E b \in BOOLEAN : SetAutoSkip(r, b)

Untouched(r) ==
    /\ \A q \in Readers \ {r} :
          /\ rPos'[q] = rPos[q]
          /\ rcycle'[q] = rcycle[q]
          /\ block'[q] = block[q]
          /\ autoSkip'[q] = autoSkip[q]
    /\ data' = data
    /\ wPos' = wPos
    /\ cycle' = cycle

C10_Isolation == [][\A r \in Readers : Untouched(r) \/ ~ReaderStep(r)]_vars

C10_Witness ==
    /\ ret.who = "r1" /\ ret.op = "Read" /\ ret.cnt > 0
    /\ rst["r2"] = "idle"
    /\ <<rcycle["r2"], rPos["r2"]>> # <<rcycle["r1"], rPos["r1"]>>
    /\ <<rcycle["r2"], rPos["r2"]>> # <<0, 0>>

C12_Original ==
    /\ []((ReadReturned /\ ret.blk0 /\ ~ret.cl0) => ret.err # "EOF")
    /\ \A r \in Readers :
          (rst[r] = "woken" /\ ret.op = "Write" /\ ret.cnt >= 1)
              ~> \/ ret.who = r /\ ret.op \in {"Read", "ReadOne"} /\ ret.err = "nil"
                 \/ rclosed[r] > 0
                 \/ closed

\* C13: Reset leaves the reader at the Writer's lap and cursor; a reader
\* made by BlockingCurrentReader is never given an element written before
\* the factory was called; a reader that has not been overrun is given the
\* elements written since its position, the first of them first; and a
\* non-blocking reader at the Writer's edge gets io.EOF and nothing.
C13_Original ==
    /\ ret.op = "Reset" => (rcycle[ret.who] = cycle /\ rPos[ret.who] = wPos)
    /\ (ReadReturned /\ ret.exp0 < 0 /\ kind[ret.who] = "BlockingCurrentReader")
           => \A i \in 1..Len(ret.data) : ret.data[i] >= 0 - ret.exp0
    /\ (DueReturned /\ ~ret.skip /\ Backlog <= Size)
           => ret.data = Run(ret.exp0, ret.cnt)
    /\ (DueReturned /\ ~ret.blk0 /\ Backlog = 0)
           => (ret.err = "EOF" /\ ret.cnt = 0)

\* C14: a reader returned by Reader or BlockingReader is one lap behind
\* the Writer, at its cursor, or at (0, 0) if the Writer has completed no
\* lap, the Writer's position being the one it had when the factory was
\* called, the one it has when the factory returns, or the one the Write
\* then going on will leave; with no Write since it was returned its
\* reads do not fail; and
\* while it is not overrun they return the elements the storage holds from
\* the oldest on, in the order written, as many as the destination takes.
Rewound == {"Reader", "BlockingReader"}

\* the lap and cursor the Write going on will leave
EdgeAfter ==
    IF wpc = "copy"
    THEN <<CycleAfterCopy(cycle, Size, Size - wPos), CursorAfter(wPos, Size)>>
    ELSE IF wpc = "cursor"
    THEN <<cycle, CursorAfter(wPos, Min(wcall.n, Size))>>
    ELSE <<cycle, wPos>>

C14_Original ==
    /\ ret.op \in Rewound
           => <<rcycle[ret.who], rPos[ret.who]>> \in
                  {Rewind(<<ret.rc0, ret.rp0>>), Rewind(Edge), Rewind(EdgeAfter)}
    /\ (ReadReturned /\ kind[ret.who] \in Rewound /\ ~ret.as0
            /\ ret.exp0 < 0 /\ ret.wr0 + 1 = 0 - ret.exp0)
           => ret.err \in {"nil", "EOF"}
    /\ (DueReturned /\ kind[ret.who] \in Rewound /\ ~ret.skip /\ Backlog <= Size)
           => /\ ret.err \in {"nil", "EOF"}
              /\ ret.cnt = Min(ret.n, Backlog)
              /\ ret.data = Run(ret.exp0, ret.cnt)

\* C15: no Write indexes the storage out of range (none panics), and when
\* a Write returns the cursor is in 0..Size-1.
C15_Original ==
    /\ ~panicked
    /\ ret.op = "Write" => (0 <= wPos /\ wPos < Size)

\* A Read or ReadOne has returned on a reader that had autoSkip disabled
\* and stood one lap behind the Writer
LapBehindReturned == ReadReturned /\ ~ret.as0 /\ ret.rc0 = ret.wc0 - 1

\* the first c elements of the storage from cursor p on
StorageFrom(p, c) == [i \in 1..c |-> data[p + i - 1]]

\* C16 as stated: one lap behind with autoSkip disabled, the call fails
\* with ErrStaleReader whenever readCursor <= writeCursor, and succeeds,
\* returning the tail of the storage from readCursor, only when
\* readCursor > writeCursor.
C16_Original ==
    LapBehindReturned =>
        IF ret.rp0 <= ret.wp0
        THEN ret.err = "Stale" /\ ret.cnt = 0
        ELSE /\ ret.err # "Stale"
             /\ ret.cnt >= Min(ret.n, Size - ret.rp0)
             /\ SubSeq(ret.data, 1, Min(ret.n, Size - ret.rp0))
                    = StorageFrom(ret.rp0, Min(ret.n, Size - ret.rp0))

\* C16 as amended: one lap behind with autoSkip disabled, the call fails
\* with ErrStaleReader exactly when readCursor < writeCursor; when
\* readCursor >= writeCursor it is not refused as stale and returns the
\* tail of the storage from readCursor.
C16_Boundary ==
    LapBehindReturned =>
        IF ret.rp0 < ret.wp0
        THEN ret.err = "Stale" /\ ret.cnt = 0
        ELSE /\ ret.err # "Stale"
             /\ ret.cnt >= Min(ret.n, Size - ret.rp0)
             /\ SubSeq(ret.data, 1, Min(ret.n, Size - ret.rp0))
                    = StorageFrom(ret.rp0, Min(ret.n, Size - ret.rp0))

C16_Witness ==
    /\ LapBehindReturned
    /\ ret.rp0 = ret.wp0
    /\ ret.wp0 > 0
    /\ ret.err = "nil"
    /\ ret.cnt = Size - ret.rp0

\* C17: every reader stands at or behind the Writer, lap first and cursor
\* second, with its cursor in 0..Size-1; no Read or ReadOne returns the
\* "reader is in the future" fault; and ReadOne never finds an empty tail
\* (a cursor equal to the capacity).
C17_Original ==
    /\ \A r \in Created :
          /\ 0 <= rPos[r] /\ rPos[r] < Size
          /\ ~Writing =>
                (rcycle[r] < cycle \/ (rcycle[r] = cycle /\ rPos[r] <= wPos))
    /\ ReadReturned => ret.err # "Future"
    /\ (ReadReturned /\ ret.op = "ReadOne") => ret.rp0 < Size

\* C18: whenever a reader may be called, ReadOne and Read with a
\* destination of length 1 give the same count, error and element and
\* leave the reader at the same lap and cursor (both go through the same
\* blocking loop before, which is the one place where block is assigned).
C18_Original ==
    \A r \in Created :
        (rst[r] = "idle" /\ ~Writing) =>
            LET one == ReadOneLeg(rcycle[r], rPos[r], autoSkip[r])
                many == ReadLeg(rcycle[r], rPos[r], autoSkip[r], 1)
            IN  many = one

\* C19: no reader holds a read lock while it waits for data, and every
\* Write that has entered mutex.Lock() is granted the lock and returns.
C19_Original ==
    /\ [](\A r \in Readers : Parked(r) => rl[r] = 0)
    /\ (wpc = "pending") ~> (wpc = "idle")

\* C20: a Read that returns io.EOF, ErrStaleReader or io.ErrClosedPipe
\* returns the count 0; a Read that has copied an element returns a nil
\* error.
C20_Original ==
    (ret.op = "Read" /\ ret.err \in {"EOF", "Stale", "Closed"}) => ret.cnt = 0

====
